---- MODULE Spec2Model ----
(***************************************************************************)
(* Model of the Auth module (src/index.js): TTL policy store, the two URL  *)
(* rule sets, token creation / liveness / renewal, the authorization       *)
(* evaluator and the middleware controller.                                *)
(*                                                                         *)
(* JavaScript values of mixed type are encoded as records with a kind tag  *)
(* so that every comparison is well typed:                                 *)
(*   roles      [kind: "undefined" | "string" | "array", str, arr]         *)
(*   callerData [defined, roles]                                           *)
(*   cookie     [kind: "none" | "garbage" | "undefined" | "jwt", payload]  *)
(*   rule set   [kind: "undefined" | "raw" | "rules", rules]               *)
(*              ("raw": the pattern list before buildUrlRules compiled it) *)
(***************************************************************************)
EXTENDS Integers, Sequences, FiniteSets, TLC

\* ------------------------------------------------------------ bounds
MaxTime == 3          \* the clock runs from StartTime to MaxTime
MaxTTL == 1           \* TTL values given to the setters: 0..MaxTTL
MaxDrift == 1         \* clock advance between two reads inside one handler
MaxConfigCalls == 2   \* configuration calls counted by configCalls

StartTime == 1        \* the clock at construction; the epoch clock is positive

\* ------------------------------------------------------------ constants
DEFAULT_ACCESS_TOKEN_TTL == 5 * (1000 * 60)
DEFAULT_REFRESH_TOKEN_TTL == 8 * (1000 * 60 * 60)

UserIds == {42}

Apps == {"app1"}
URIs == {"/public/health", "/admin/reports", "/other"}
CookieNames == {"tkn", "sid"}
\* params.tknAppName and request.headers.tknAppName ("" when absent)
NamePairs == {<<"", "">>, <<"sid", "">>, <<"", "sid">>}
TTLValues == 0..MaxTTL
FnChoices == {"allow", "deny", "throw"}

\* ------------------------------------------------------------ values
UndefinedRoles == [kind |-> "undefined", str |-> "", arr |-> <<>>]
StringRoles(s) == [kind |-> "string", str |-> s, arr |-> <<>>]
ArrayRoles(a) == [kind |-> "array", str |-> "", arr |-> a]

RoleValues ==
    {UndefinedRoles, StringRoles(""), StringRoles("admin"), StringRoles("user"),
     ArrayRoles(<<>>), ArrayRoles(<<"admin">>), ArrayRoles(<<"admin", "user">>)}

UndefinedData == [defined |-> FALSE, roles |-> UndefinedRoles]
CallerData == {UndefinedData} \cup {[defined |-> TRUE, roles |-> r] : r \in RoleValues}

UndefinedUdata == [app |-> "", sub |-> 0, data |-> UndefinedData]
NoUserData == [defined |-> FALSE, udata |-> UndefinedUdata]
NoToken == [exp |-> 0, rtexp |-> 0, iss |-> "", udata |-> UndefinedUdata]

NoCookie == [kind |-> "none", payload |-> NoToken]
GarbageCookie == [kind |-> "garbage", payload |-> NoToken]
UndefinedCookie == [kind |-> "undefined", payload |-> NoToken]

UndefinedRules == [kind |-> "undefined", rules |-> <<>>]
Rule(p, d) == [pattern |-> p, data |-> d]

\* argument values of authorizations(auths)
AuthorizationConfigs ==
    {<<Rule("/admin/*", <<"admin">>)>>,
     <<Rule("/admin/*", <<"admin">>), Rule("/admin/reports", <<"user">>)>>}

\* argument values of notAuthenticatedUrls(urls) / addNotAuthenticatedUrls(urls)
UrlConfigs == {<<"/public/*">>, <<"/admin/reports">>}

VARIABLES
    now,                       \* new Date().getTime()
    authAccessTokenTTL,        \* app -> ttl, "default" always present
    authRefreshTokenTTL,
    authAuthorizations,
    authNotAuthenticatedUrls,
    authCanRefreshTokenFn,     \* "undefined" or the behaviour of the function
    authAuthorizeFn,
    configCalls,               \* number of configuration calls so far (TTLs, rules,
                               \* authorize function)
    clientCookie,              \* the cookie value the client was last sent
    request,                   \* the request object of the last call
    response,                  \* the response object of the last call
    call                       \* the last call: operation, result, steps taken

vars == <<now, authAccessTokenTTL, authRefreshTokenTTL, authAuthorizations,
          authNotAuthenticatedUrls, authCanRefreshTokenFn, authAuthorizeFn,
          configCalls, clientCookie, request, response, call>>

config == <<authAccessTokenTTL, authRefreshTokenTTL, authAuthorizations,
            authNotAuthenticatedUrls, authCanRefreshTokenFn, authAuthorizeFn>>

\* ------------------------------------------------------------ JavaScript truthiness
\* !userRoles: undefined and "" are falsy, every array (also []) is truthy
Truthy(roles) ==
    \/ roles.kind = "array"
    \/ roles.kind = "string" /\ roles.str # ""

\* a number is falsy exactly when it is 0
TruthyNumber(n) == n # 0

\* ------------------------------------------------------------ url-parser (external)
PatternMatches(pattern, uri) ==
    \/ pattern = "/public/*" /\ uri = "/public/health"
    \/ pattern = "/admin/*" /\ uri = "/admin/reports"
    \/ pattern = uri

\* buildUrlRules over a list of patterns: one rule per pattern, no data
buildUrlRules(urls) == [i \in DOMAIN urls |-> Rule(urls[i], <<>>)]

\* urlMatches(rules, uri, fn): the rules are tried in configured order; a rule
\* counts when its pattern matches and fn(rule) is true. verdicts[i] is the
\* outcome of fn(rules[i]) ("true", "false" or "throw"); the first matching rule
\* whose verdict is not "false" decides.
Qualifying(rules, uri, verdicts) ==
    {i \in DOMAIN rules : PatternMatches(rules[i].pattern, uri) /\ verdicts[i] # "false"}

First(S) == CHOOSE i \in S : \A j \in S : i <= j

urlMatches(rules, uri, verdicts) ==
    IF Qualifying(rules, uri, verdicts) = {}
    THEN "false"
    ELSE verdicts[First(Qualifying(rules, uri, verdicts))]

NoPredicate(rules) == [i \in DOMAIN rules |-> "true"]

\* ------------------------------------------------------------ TTL policy store
getAccessTokenTTL(app) ==
    IF app \in DOMAIN authAccessTokenTTL /\ TruthyNumber(authAccessTokenTTL[app])
    THEN authAccessTokenTTL[app]
    ELSE authAccessTokenTTL["default"]

getRefreshTokenTTL(app) ==
    IF app \in DOMAIN authRefreshTokenTTL /\ TruthyNumber(authRefreshTokenTTL[app])
    THEN authRefreshTokenTTL[app]
    ELSE authRefreshTokenTTL["default"]

\* m[app] = ttl
SetEntry(m, app, ttl) ==
    [k \in DOMAIN m \cup {app} |-> IF k = app THEN ttl ELSE m[k]]

\* ------------------------------------------------------------ token liveness
\* the liveness checks without the comparison with the clock
isAccessTokenAliveNoClock(token, t) == TruthyNumber(token.exp)

isRefreshTokenAliveNoClock(token, t) == TruthyNumber(token.rtexp)

\* isAccessTokenAlive with a strict comparison: dead at exp = now
isAccessTokenAliveStrict(token, t) == TruthyNumber(token.exp) /\ token.exp > t

\* token.exp && token.exp >= new Date().getTime(), the clock read being t
isAccessTokenAlive(token, t) == TruthyNumber(token.exp) /\ token.exp >= t

isRefreshTokenAlive(token, t) == TruthyNumber(token.rtexp) /\ token.rtexp >= t

\* ------------------------------------------------------------ token codec (external)
serialize(token) == [kind |-> "jwt", payload |-> token]

\* JSON.parse(jwt.deserialize(tkn, true)): only a value written by serialize decodes
CanDecode(value) == value.kind = "jwt"
deserialize(value) == value.payload

\* ------------------------------------------------------------ transport
getTokenName(params, headers) ==
    IF params # "" THEN params ELSE IF headers # "" THEN headers ELSE "tkn"

\* cookies[name]; undefined and "" are falsy
extractToken(cookies, name) == cookies[name]

\* TokenFound taking the text "undefined" for an absent cookie
TokenFoundNotSentinel(cookies, name) ==
    extractToken(cookies, name).kind \notin {"none", "undefined"}

\* if (tkn)
TokenFound(cookies, name) == extractToken(cookies, name).kind # "none"

\* ------------------------------------------------------------ authorization
\* RoleList without the wrapping of a single string role
RoleListNoWrap(roles) == roles.arr

\* userRoles after "if (typeof userRoles === 'string') userRoles = [userRoles]"
RoleList(roles) == IF roles.kind = "string" THEN <<roles.str>> ELSE roles.arr

Elements(seq) == {seq[i] : i \in DOMAIN seq}

\* urlRule.data.some(role => userRoles.indexOf(role) > -1)
SomeRole(rule, roles) ==
    IF Elements(rule.data) \cap Elements(RoleList(roles)) # {} THEN "true" ELSE "false"

\* the callback isAuthorized hands to urlMatches, applied to every rule
AuthorizePredicate(rules, roles) ==
    [i \in DOMAIN rules |->
        IF authAuthorizeFn # "undefined"
        THEN (CASE authAuthorizeFn = "allow" -> "true"
                [] authAuthorizeFn = "deny" -> "false"
                [] OTHER -> "throw")
        ELSE SomeRole(rules[i], roles)]

UserRoles(userData) == IF userData.defined THEN userData.roles ELSE UndefinedRoles

\* "true", "false", or "throw" when the injected authorize function throws
isAuthorized(requestURI, userData) ==
    IF authAuthorizations.kind = "undefined"
    THEN "true"
    ELSE IF authAuthorizeFn = "undefined" /\ ~Truthy(UserRoles(userData))
         THEN "true"
         ELSE urlMatches(authAuthorizations.rules, requestURI,
                         AuthorizePredicate(authAuthorizations.rules, UserRoles(userData)))

\* isAuthenticatedUrl with the negation of the match lost
isAuthenticatedUrlNoNegation(requestURI) ==
    \/ authNotAuthenticatedUrls.kind = "undefined"
    \/ urlMatches(authNotAuthenticatedUrls.rules, requestURI,
                  NoPredicate(authNotAuthenticatedUrls.rules)) = "true"

\* isAuthenticatedUrl taking an unset rule set for one that exempts every URI
isAuthenticatedUrlUnsetExempt(requestURI) ==
    /\ authNotAuthenticatedUrls.kind # "undefined"
    /\ urlMatches(authNotAuthenticatedUrls.rules, requestURI,
                  NoPredicate(authNotAuthenticatedUrls.rules)) # "true"

isAuthenticatedUrl(requestURI) ==
    \/ authNotAuthenticatedUrls.kind = "undefined"
    \/ urlMatches(authNotAuthenticatedUrls.rules, requestURI,
                  NoPredicate(authNotAuthenticatedUrls.rules)) # "true"

\* response.json({message, status: 401}, 401)
Rejection == [message |-> "Authentication Error: Not Authenticated", status |-> 401, code |-> 401]

\* ------------------------------------------------------------ clock reads
\* The clock values returned by the successive new Date().getTime() calls of one
\* handler: non-decreasing, the first one being the clock at entry.
ClockReads(n) ==
    {r \in [1..n -> now..(now + MaxDrift)] :
        /\ r[1] = now
        /\ r[n] <= MaxTime
        /\ \A i \in 1..(n - 1) : r[i] <= r[i + 1]}

\* ------------------------------------------------------------ objects of a call
NoRequest ==
    [requestURI |-> "", params |-> "", headers |-> "",
     cookies |-> [n \in CookieNames |-> NoCookie], userData |-> NoUserData]

NewRequest(uri, params, headers, cookies) ==
    [requestURI |-> uri, params |-> params, headers |-> headers,
     cookies |-> cookies, userData |-> NoUserData]

NewResponse == [headers |-> <<>>, json |-> <<>>]

SetCookie(name, value) == [name |-> name, value |-> value]

Idle ==
    [op |-> "none", returned |-> "none", exempt |-> FALSE, extracted |-> FALSE,
     found |-> FALSE, decoded |-> FALSE, alive |-> FALSE, refreshTried |-> FALSE,
     canRefreshAsked |-> FALSE, refreshed |-> FALSE, authorized |-> "none",
     callerData |-> UndefinedData, tokenIn |-> NoToken, tokenOut |-> NoToken,
     entry |-> 0, observed |-> "none"]

\* setTokenIntoHeader: response.addHeader('Set-Cookie', name=value;...)
setTokenIntoHeader(params, headers, resp, serializedToken) ==
    [resp EXCEPT !.headers =
        Append(@, SetCookie(getTokenName(params, headers), serializedToken))]

\* the client replaces its cookie by the value of the last Set-Cookie header
Store(resp) ==
    clientCookie' = IF resp.headers = <<>> THEN clientCookie
                    ELSE resp.headers[Len(resp.headers)].value

\* ------------------------------------------------------------ token lifecycle
\* tryToRefreshToken renewing exp only: the old rtexp is kept
tryToRefreshTokenKeepRtexp(params, headers, resp, token, r) ==
    IF ~isRefreshTokenAlive(token, r[2]) \/ authCanRefreshTokenFn \in {"deny", "throw"}
    THEN [threw |-> TRUE, token |-> token,
          asked |-> isRefreshTokenAlive(token, r[2]), response |-> resp, clock |-> r[2]]
    ELSE LET renewed ==
                [token EXCEPT !.exp = r[3] + getAccessTokenTTL(token.udata.app)]
         IN [threw |-> FALSE, token |-> renewed,
             asked |-> authCanRefreshTokenFn # "undefined",
             response |-> setTokenIntoHeader(params, headers, resp, serialize(renewed)),
             clock |-> r[4]]

\* tryToRefreshToken asking the refresh predicate before looking at rtexp
tryToRefreshTokenPredicateFirst(params, headers, resp, token, r) ==
    IF authCanRefreshTokenFn \in {"deny", "throw"}
    THEN [threw |-> TRUE, token |-> token, asked |-> TRUE, response |-> resp,
          clock |-> r[2]]
    ELSE IF ~isRefreshTokenAlive(token, r[2])
    THEN [threw |-> TRUE, token |-> token,
          asked |-> authCanRefreshTokenFn # "undefined", response |-> resp,
          clock |-> r[2]]
    ELSE LET renewed ==
                [token EXCEPT !.exp = r[3] + getAccessTokenTTL(token.udata.app),
                              !.rtexp = r[4] + getRefreshTokenTTL(token.udata.app)]
         IN [threw |-> FALSE, token |-> renewed,
             asked |-> authCanRefreshTokenFn # "undefined",
             response |-> setTokenIntoHeader(params, headers, resp, serialize(renewed)),
             clock |-> r[4]]

\* r[2]: the read of isRefreshTokenAlive, r[3] and r[4]: the reads of the new
\* exp and rtexp. Result: threw, the token, whether canRefresh was called, the
\* response, and the clock when it returned or threw.
tryToRefreshToken(params, headers, resp, token, r) ==
    IF ~isRefreshTokenAlive(token, r[2])
    THEN [threw |-> TRUE, token |-> token, asked |-> FALSE, response |-> resp,
          clock |-> r[2]]
    ELSE IF authCanRefreshTokenFn \in {"deny", "throw"}
    THEN [threw |-> TRUE, token |-> token, asked |-> TRUE, response |-> resp,
          clock |-> r[2]]
    ELSE LET renewed ==
                [token EXCEPT !.exp = r[3] + getAccessTokenTTL(token.udata.app),
                              !.rtexp = r[4] + getRefreshTokenTTL(token.udata.app)]
         IN [threw |-> FALSE, token |-> renewed,
             asked |-> authCanRefreshTokenFn # "undefined",
             response |-> setTokenIntoHeader(params, headers, resp, serialize(renewed)),
             clock |-> r[4]]

\* The outcome of a handler body: the steps taken, whether it threw, the
\* request's userData and the response afterwards, and the clock at that point.
Outcome(c, threw, ud, rsp, clock) ==
    [call |-> c, threw |-> threw, userData |-> ud, response |-> rsp, clock |-> clock]

\* authorizeAndAttach with request.userData assigned before the authorization check
authorizeAndAttachEarly(uri, c, ref) ==
    LET authz == isAuthorized(uri, ref.token.udata.data)
        c2 == [c EXCEPT !.authorized = authz, !.callerData = ref.token.udata.data]
    IN Outcome(c2, authz # "true", [defined |-> TRUE, udata |-> ref.token.udata],
               ref.response, ref.clock)

\* authorizeAndAttach without the authorization check
authorizeAndAttachNoCheck(uri, c, ref) ==
    Outcome([c EXCEPT !.callerData = ref.token.udata.data], FALSE,
            [defined |-> TRUE, udata |-> ref.token.udata], ref.response, ref.clock)

\* the end of proccessAndValidateToken: the authorization check on the token that
\* came out of the liveness step (ref), then request.userData = token.udata
authorizeAndAttach(uri, c, ref) ==
    LET authz == isAuthorized(uri, ref.token.udata.data)
        c2 == [c EXCEPT !.authorized = authz, !.callerData = ref.token.udata.data]
    IN IF authz # "true"
       THEN Outcome(c2, TRUE, NoUserData, ref.response, ref.clock)
       ELSE Outcome(c2, FALSE, [defined |-> TRUE, udata |-> ref.token.udata],
                    ref.response, ref.clock)

proccessAndValidateToken(uri, params, headers, cookies, resp, r) ==
    LET name == getTokenName(params, headers)
        tkn == extractToken(cookies, name)
        base == [Idle EXCEPT !.op = "middleware", !.entry = r[1], !.extracted = TRUE]
    IN IF ~TokenFound(cookies, name)
       THEN Outcome(base, TRUE, NoUserData, resp, r[1])
       ELSE IF ~CanDecode(tkn)
       THEN Outcome([base EXCEPT !.found = TRUE], TRUE, NoUserData, resp, r[1])
       ELSE
         LET token == deserialize(tkn)
             alive == isAccessTokenAlive(token, r[1])
             ref == IF alive
                    THEN [threw |-> FALSE, token |-> token, asked |-> FALSE,
                          response |-> resp, clock |-> r[1]]
                    ELSE tryToRefreshToken(params, headers, resp, token, r)
             c1 == [base EXCEPT !.found = TRUE, !.decoded = TRUE,
                                !.alive = alive, !.refreshTried = ~alive,
                                !.canRefreshAsked = ref.asked,
                                !.refreshed = ~alive /\ ~ref.threw,
                                !.tokenIn = token, !.tokenOut = ref.token]
         IN IF ref.threw
            THEN Outcome(c1, TRUE, NoUserData, ref.response, ref.clock)
            ELSE authorizeAndAttach(uri, c1, ref)

\* notAuthenticated leaving the response as it was
notAuthenticatedNoWrite(resp) == resp

\* notAuthenticated(response)
notAuthenticated(resp) == [resp EXCEPT !.json = Append(@, Rejection)]

\* ------------------------------------------------------------ initial state
Init ==
    /\ now = StartTime
    /\ authAccessTokenTTL = [k \in {"default"} |-> DEFAULT_ACCESS_TOKEN_TTL]
    /\ authRefreshTokenTTL = [k \in {"default"} |-> DEFAULT_REFRESH_TOKEN_TTL]
    /\ authAuthorizations = UndefinedRules
    /\ authNotAuthenticatedUrls = UndefinedRules
    /\ authCanRefreshTokenFn = "undefined"
    /\ authAuthorizeFn = "undefined"
    /\ configCalls = 0
    /\ clientCookie = NoCookie
    /\ request = NoRequest
    /\ response = NewResponse
    /\ call = Idle

\* ------------------------------------------------------------ configuration
\* Requests are handled one after the other: a handler starts when no request is
\* being looked at, and configuration and the clock move between requests.
Ready == call.op = "none"

\* every configuration call returns self; a call starts when the configuring
\* thread is not inside notAuthenticatedUrls
Configured ==
    /\ Ready
    /\ authNotAuthenticatedUrls.kind # "raw"
    /\ configCalls < MaxConfigCalls
    /\ configCalls' = configCalls + 1
    /\ UNCHANGED <<now, clientCookie, request, response, call>>

authorizations(auths) ==
    /\ Configured
    /\ authAuthorizations' = [kind |-> "rules", rules |-> auths]
    /\ UNCHANGED <<authAccessTokenTTL, authRefreshTokenTTL, authNotAuthenticatedUrls,
                   authCanRefreshTokenFn, authAuthorizeFn>>

authorizeFn(fn) ==
    /\ Configured
    /\ authAuthorizeFn' = fn
    /\ UNCHANGED <<authAccessTokenTTL, authRefreshTokenTTL, authAuthorizations,
                   authNotAuthenticatedUrls, authCanRefreshTokenFn>>

\* not counted in configCalls: a refresh predicate can then meet a token issued
\* under an access and a refresh TTL that were both configured
canRefreshTokenFn(fn) ==
    /\ Ready
    /\ authNotAuthenticatedUrls.kind # "raw"
    /\ authCanRefreshTokenFn' = fn
    /\ UNCHANGED <<now, configCalls, clientCookie, request, response, call>>
    /\ UNCHANGED <<authAccessTokenTTL, authRefreshTokenTTL, authAuthorizations,
                   authNotAuthenticatedUrls, authAuthorizeFn>>

\* urls is a non-empty list of patterns here ("if (urls)" holds)
notAuthenticatedUrls(urls) ==
    /\ Configured
    /\ authNotAuthenticatedUrls' = [kind |-> "rules", rules |-> buildUrlRules(urls)]
    /\ UNCHANGED <<authAccessTokenTTL, authRefreshTokenTTL, authAuthorizations,
                   authCanRefreshTokenFn, authAuthorizeFn>>

clearNotAuthenticatedUrls ==
    /\ Configured
    /\ authNotAuthenticatedUrls' = [kind |-> "rules", rules |-> <<>>]
    /\ UNCHANGED <<authAccessTokenTTL, authRefreshTokenTTL, authAuthorizations,
                   authCanRefreshTokenFn, authAuthorizeFn>>

\* notAuthenticatedUrls statement by statement, for requests served by other
\* threads while it runs. Line 73: the variable is given the pattern list.
notAuthenticatedUrlsAssign(urls) ==
    /\ Configured
    /\ authNotAuthenticatedUrls' = [kind |-> "raw", rules |-> buildUrlRules(urls)]
    /\ UNCHANGED <<authAccessTokenTTL, authRefreshTokenTTL, authAuthorizations,
                   authCanRefreshTokenFn, authAuthorizeFn>>

\* Line 74: the variable is given the compiled rules.
notAuthenticatedUrlsCompile ==
    /\ authNotAuthenticatedUrls.kind = "raw"
    /\ authNotAuthenticatedUrls' = [authNotAuthenticatedUrls EXCEPT !.kind = "rules"]
    /\ UNCHANGED <<now, authAccessTokenTTL, authRefreshTokenTTL, authAuthorizations,
                   authCanRefreshTokenFn, authAuthorizeFn, configCalls, clientCookie,
                   request, response, call>>

\* undefined.concat(...) throws a TypeError out of the call when the set was
\* never configured; call.returned tells how the call ended
addNotAuthenticatedUrls(urls) ==
    /\ Ready
    /\ authNotAuthenticatedUrls.kind # "raw"
    /\ configCalls < MaxConfigCalls
    /\ configCalls' = configCalls + 1
    /\ IF authNotAuthenticatedUrls.kind = "undefined"
       THEN /\ authNotAuthenticatedUrls' = authNotAuthenticatedUrls
            /\ call' = [Idle EXCEPT !.op = "addNotAuthenticatedUrls",
                                    !.returned = "throw", !.entry = now]
       ELSE /\ authNotAuthenticatedUrls' =
                  [kind |-> "rules",
                   rules |-> authNotAuthenticatedUrls.rules \o buildUrlRules(urls)]
            /\ call' = [Idle EXCEPT !.op = "addNotAuthenticatedUrls",
                                    !.returned = "self", !.entry = now]
    /\ UNCHANGED <<now, authAccessTokenTTL, authRefreshTokenTTL, authAuthorizations,
                   authCanRefreshTokenFn, authAuthorizeFn, clientCookie, request,
                   response>>

\* accessTokenTTL(ttl) is accessTokenTTL("default", ttl)
accessTokenTTL(app, ttl) ==
    /\ Configured
    /\ authAccessTokenTTL' = SetEntry(authAccessTokenTTL, app, ttl)
    /\ UNCHANGED <<authRefreshTokenTTL, authAuthorizations, authNotAuthenticatedUrls,
                   authCanRefreshTokenFn, authAuthorizeFn>>

refreshTokenTTL(app, ttl) ==
    /\ Configured
    /\ authRefreshTokenTTL' = SetEntry(authRefreshTokenTTL, app, ttl)
    /\ UNCHANGED <<authAccessTokenTTL, authAuthorizations, authNotAuthenticatedUrls,
                   authCanRefreshTokenFn, authAuthorizeFn>>

\* ------------------------------------------------------------ the clock
Tick ==
    /\ Ready
    /\ now < MaxTime
    /\ now' = now + 1
    /\ UNCHANGED <<config, configCalls, clientCookie, request, response, call>>

\* the request is over: its request and response objects are dropped
EndRequest ==
    /\ ~Ready
    /\ request' = NoRequest
    /\ response' = NewResponse
    /\ call' = Idle
    /\ UNCHANGED <<now, config, configCalls, clientCookie>>

\* ------------------------------------------------------------ request handlers
Cookies(name, value) == [n \in CookieNames |-> IF n = name THEN value ELSE NoCookie]

\* what a client can put in a cookie: nothing, junk, the text "undefined", or the
\* value it was last sent
CookieValues == {NoCookie, GarbageCookie, UndefinedCookie, clientCookie}

\* What line 165 can get from isAuthenticatedUrl. urlMatches is defined on
\* compiled rules; handed the pattern list that line 73 leaves in the variable it
\* may find a match, find none, or throw.
AuthenticatedUrlResults(uri) ==
    IF authNotAuthenticatedUrls.kind = "raw"
    THEN {"true", "false", "throw"}
    ELSE {IF isAuthenticatedUrl(uri) THEN "true" ELSE "false"}

middleware(uri, params, headers, cookies) ==
    /\ Ready
    /\ \E a \in AuthenticatedUrlResults(uri) :
         CASE a = "false" ->
                /\ request' = NewRequest(uri, params, headers, cookies)
                /\ response' = NewResponse
                /\ call' = [Idle EXCEPT !.op = "middleware", !.returned = "true",
                                        !.exempt = TRUE, !.entry = now,
                                        !.observed = authNotAuthenticatedUrls.kind]
                /\ UNCHANGED <<now, config, configCalls, clientCookie>>
           [] a = "throw" ->
                \* line 165 is outside the try block: the exception leaves middleware
                /\ request' = NewRequest(uri, params, headers, cookies)
                /\ response' = NewResponse
                /\ call' = [Idle EXCEPT !.op = "middleware", !.returned = "throw",
                                        !.entry = now,
                                        !.observed = authNotAuthenticatedUrls.kind]
                /\ UNCHANGED <<now, config, configCalls, clientCookie>>
           [] OTHER ->
                \E r \in ClockReads(4) :
                   LET o == proccessAndValidateToken(uri, params, headers, cookies,
                                                     NewResponse, r)
                   IN /\ request' = [NewRequest(uri, params, headers, cookies)
                                        EXCEPT !.userData = o.userData]
                      /\ response' = IF o.threw THEN notAuthenticated(o.response)
                                     ELSE o.response
                      /\ call' = [o.call EXCEPT
                                    !.returned = IF o.threw THEN "false" ELSE "true",
                                    !.observed = authNotAuthenticatedUrls.kind]
                      /\ now' = o.clock
                      /\ Store(o.response)
                      /\ UNCHANGED <<config, configCalls>>

\* validateOnlyAuthorization letting a URI of the not-authenticated set through
validateOnlyAuthorizationExempt(uri, userData) ==
    LET authz == IF isAuthenticatedUrl(uri) THEN isAuthorized(uri, userData) ELSE "true"
    IN /\ Ready
       /\ request' = NewRequest(uri, "", "", Cookies("tkn", clientCookie))
       /\ response' = IF authz = "true" THEN NewResponse
                      ELSE notAuthenticated(NewResponse)
       /\ call' = [Idle EXCEPT !.op = "validateOnlyAuthorization",
                               !.returned = IF authz = "true" THEN "true" ELSE "false",
                               !.authorized = authz, !.callerData = userData,
                               !.entry = now]
       /\ UNCHANGED <<now, config, configCalls, clientCookie>>

\* the request carries the cookie the client holds; the handler does not look at it
validateOnlyAuthorization(uri, userData) ==
    LET authz == isAuthorized(uri, userData)
    IN /\ Ready
       /\ request' = NewRequest(uri, "", "", Cookies("tkn", clientCookie))
       /\ response' = IF authz = "true" THEN NewResponse
                      ELSE notAuthenticated(NewResponse)
       /\ call' = [Idle EXCEPT !.op = "validateOnlyAuthorization",
                               !.returned = IF authz = "true" THEN "true" ELSE "false",
                               !.authorized = authz, !.callerData = userData,
                               !.entry = now]
       /\ UNCHANGED <<now, config, configCalls, clientCookie>>

\* NewToken with the two TTLs taken from the wrong stores
NewTokenSwapped(userId, appId, data, r) ==
    [exp |-> r[1] + getRefreshTokenTTL(appId),
     iss |-> appId,
     rtexp |-> r[2] + getAccessTokenTTL(appId),
     udata |-> [app |-> appId, sub |-> userId, data |-> data]]

\* the payload createAuthentication serializes; r[1] and r[2] are its clock reads
NewToken(userId, appId, data, r) ==
    [exp |-> r[1] + getAccessTokenTTL(appId),
     iss |-> appId,
     rtexp |-> r[2] + getRefreshTokenTTL(appId),
     udata |-> [app |-> appId, sub |-> userId, data |-> data]]

createAuthentication(params, headers, userId, appId, data) ==
    \E r \in ClockReads(2) :
        LET token == NewToken(userId, appId, data, r)
        IN /\ Ready
           /\ request' = NewRequest("", params, headers, Cookies("tkn", NoCookie))
           /\ response' = setTokenIntoHeader(params, headers, NewResponse,
                                             serialize(token))
           /\ call' = [Idle EXCEPT !.op = "createAuthentication",
                                   !.returned = "token", !.tokenOut = token,
                                   !.entry = r[1]]
           /\ now' = r[2]
           /\ clientCookie' = serialize(token)
           /\ UNCHANGED <<config, configCalls>>

destroyAuthentication(params, headers) ==
    /\ Ready
    /\ request' = NewRequest("", params, headers, Cookies("tkn", NoCookie))
    /\ response' = setTokenIntoHeader(params, headers, NewResponse, UndefinedCookie)
    /\ call' = [Idle EXCEPT !.op = "destroyAuthentication", !.returned = "undefined",
                            !.entry = now]
    /\ clientCookie' = UndefinedCookie
    /\ UNCHANGED <<now, config, configCalls>>

\* ------------------------------------------------------------ specifications
\* data placed in tokens where only the role check matters
RoleData ==
    {[defined |-> TRUE, roles |-> StringRoles("user")],
     [defined |-> TRUE, roles |-> ArrayRoles(<<"admin">>)]}

\* Spec: the request pipeline with every kind of configuration. TTLs are set
\* through the one-argument (default) form and cookies are looked up under the
\* default name.
Next ==
    \/ authorizations(<<Rule("/admin/*", <<"admin">>)>>)
    \/ \E f \in FnChoices : authorizeFn(f)
    \/ \E f \in FnChoices : canRefreshTokenFn(f)
    \/ notAuthenticatedUrls(<<"/public/*">>)
    \/ clearNotAuthenticatedUrls
    \/ \E ttl \in 1..MaxTTL : accessTokenTTL("default", ttl)
    \/ \E ttl \in 1..MaxTTL : refreshTokenTTL("default", ttl)
    \/ Tick
    \/ EndRequest
    \/ \E uri \in URIs, n \in CookieNames, v \in CookieValues :
          middleware(uri, "", "", Cookies(n, v))
    \/ \E uri \in URIs, d \in RoleData : validateOnlyAuthorization(uri, d)
    \/ \E u \in UserIds, app \in Apps, d \in RoleData : createAuthentication("", "", u, app, d)
    \/ destroyAuthentication("", "")

Spec == Init /\ [][Next]_vars

\* SpecLifecycle: the TTL policy store, the refresh predicate and the clock.
NextLifecycle ==
    \/ \E app \in Apps \cup {"default"}, ttl \in TTLValues : accessTokenTTL(app, ttl)
    \/ \E app \in Apps \cup {"default"}, ttl \in TTLValues : refreshTokenTTL(app, ttl)
    \/ \E f \in FnChoices : canRefreshTokenFn(f)
    \/ Tick
    \/ EndRequest
    \/ \E v \in CookieValues : middleware("/other", "", "", Cookies("tkn", v))
    \/ \E u \in UserIds, app \in Apps : createAuthentication("", "", u, app, UndefinedData)

SpecLifecycle == Init /\ [][NextLifecycle]_vars

\* SpecAuthz: the authorization rule set and the custom authorize function, with
\* every shape of caller data.
NextAuthz ==
    \/ \E a \in AuthorizationConfigs : authorizations(a)
    \/ \E f \in FnChoices : authorizeFn(f)
    \/ EndRequest
    \/ \E uri \in URIs, v \in CookieValues : middleware(uri, "", "", Cookies("tkn", v))
    \/ \E uri \in URIs, d \in CallerData : validateOnlyAuthorization(uri, d)
    \/ \E u \in UserIds, app \in Apps, d \in CallerData :
          createAuthentication("", "", u, app, d)

SpecAuthz == Init /\ [][NextAuthz]_vars

\* SpecExempt: the not-authenticated rule set and the cookie name resolution.
NextExempt ==
    \/ \E u \in UrlConfigs : notAuthenticatedUrls(u)
    \/ clearNotAuthenticatedUrls
    \/ \E ttl \in 1..MaxTTL : accessTokenTTL("default", ttl)
    \/ \E ttl \in 1..MaxTTL : refreshTokenTTL("default", ttl)
    \/ Tick
    \/ EndRequest
    \/ \E uri \in URIs, nm \in NamePairs, n \in CookieNames, v \in CookieValues :
          middleware(uri, nm[1], nm[2], Cookies(n, v))
    \/ \E u \in UserIds, app \in Apps : createAuthentication("", "", u, app, UndefinedData)
    \/ \E nm \in NamePairs : destroyAuthentication(nm[1], nm[2])

SpecExempt == Init /\ [][NextExempt]_vars

\* SpecRuleSets: the not-authenticated rule set replaced, extended and cleared
\* while requests are served; notAuthenticatedUrls runs statement by statement.
NextRuleSets ==
    \/ \E u \in UrlConfigs : notAuthenticatedUrlsAssign(u)
    \/ notAuthenticatedUrlsCompile
    \/ \E u \in UrlConfigs : addNotAuthenticatedUrls(u)
    \/ clearNotAuthenticatedUrls
    \/ Tick
    \/ EndRequest
    \/ \E uri \in URIs, v \in CookieValues : middleware(uri, "", "", Cookies("tkn", v))
    \/ \E u \in UserIds, app \in Apps : createAuthentication("", "", u, app, UndefinedData)

SpecRuleSets == Init /\ [][NextRuleSets]_vars

\* ------------------------------------------------------------ what a call shows
\* the cookie under the name the request resolves to
Presented == request.cookies[getTokenName(request.params, request.headers)]

\* middleware ran on a URI that is not exempt
Authenticating == call.op = "middleware" /\ ~call.exempt

\* the token of the request was written again by a Set-Cookie header
Renewed == response.headers # <<>>

Rejected == call.returned = "false" /\ response.json = <<Rejection>>

\* ------------------------------------------------------------ C1
\* C1: on a URI that is not exempt, middleware returns true only if a token was
\* found under the resolved cookie name, it decoded, its access part was alive at
\* the check or it was renewed in this request, and isAuthorized was true for its
\* udata.data; request.userData is the token's udata exactly then and is left
\* undefined by every rejection.
C1_PassRequiresTokenAndAuthorization ==
    Authenticating =>
        /\ call.returned \in {"true", "false"}
        /\ call.returned = "true" =>
              /\ Presented.kind = "jwt"
              /\ \/ Presented.payload.exp # 0 /\ Presented.payload.exp >= call.entry
                 \/ Renewed
              /\ isAuthorized(request.requestURI, Presented.payload.udata.data) = "true"
              /\ request.userData = [defined |-> TRUE, udata |-> Presented.payload.udata]
        /\ call.returned = "false" => request.userData = NoUserData

\* a renewed token passing an authorization rule set
C1_Witness ==
    /\ Authenticating
    /\ call.returned = "true"
    /\ Renewed
    /\ authAuthorizations.kind = "rules"
    /\ request.userData.defined

\* ------------------------------------------------------------ C2
\* C2: a token whose exp and rtexp are both before the clock at the start of the
\* request is rejected with the 401 response on every URI that is not exempt, and
\* no Set-Cookie renews it.
C2_DeadTokenRejected ==
    (/\ Authenticating
     /\ Presented.kind = "jwt"
     /\ Presented.payload.exp < call.entry
     /\ Presented.payload.rtexp < call.entry)
    => /\ Rejected
       /\ ~Renewed
       /\ request.userData = NoUserData
       /\ clientCookie = Presented

C2_Witness ==
    /\ Authenticating
    /\ Presented.kind = "jwt"
    /\ Presented.payload.exp < call.entry
    /\ Presented.payload.rtexp < call.entry
    /\ Rejected

\* ------------------------------------------------------------ C3
\* C3 as stated: once the clock has passed token.rtexp, middleware on a URI that
\* is not exempt neither passes nor renews the token.
C3_AsStated ==
    (/\ Authenticating
     /\ Presented.kind = "jwt"
     /\ Presented.payload.rtexp < call.entry)
    => /\ call.returned = "false"
       /\ ~Renewed

\* C3 amended: once the clock has passed token.rtexp, middleware never renews the
\* token, and it rejects the token unless its exp is still ahead of the clock,
\* which only a token issued with exp later than rtexp can show.
C3_DeadRefreshNeverRenewed ==
    (/\ Authenticating
     /\ Presented.kind = "jwt"
     /\ Presented.payload.rtexp < call.entry)
    => /\ ~Renewed
       /\ clientCookie = Presented
       /\ call.returned = "true" =>
             /\ Presented.payload.exp >= call.entry
             /\ Presented.payload.exp > Presented.payload.rtexp
       /\ Presented.payload.exp <= Presented.payload.rtexp => Rejected

\* a token past its rtexp that still passes
C3_Witness ==
    /\ Authenticating
    /\ Presented.kind = "jwt"
    /\ Presented.payload.rtexp < call.entry
    /\ call.returned = "true"
    /\ request.userData.defined

\* ------------------------------------------------------------ C4
\* the request presents a token whose exp is past and whose rtexp is not, also
\* when the request ends, and no refresh predicate forbids the renewal
Refreshable ==
    /\ Authenticating
    /\ Presented.kind = "jwt"
    /\ Presented.payload.exp < call.entry
    /\ Presented.payload.rtexp >= now
    /\ authCanRefreshTokenFn \in {"undefined", "allow"}

RenewedToken == response.headers[1].value.payload

\* C4 as stated: such a token is renewed exactly once in the request and the
\* renewed exp and rtexp are both strictly greater than the original ones.
C4_AsStated ==
    Refreshable =>
        /\ Len(response.headers) = 1
        /\ response.headers[1].value.kind = "jwt"
        /\ RenewedToken.exp > Presented.payload.exp
        /\ RenewedToken.rtexp > Presented.payload.rtexp

\* C4 amended: such a token is renewed exactly once in the request (one
\* Set-Cookie with the re-encoded token); the renewed exp and rtexp are the clock
\* of the renewal plus the access and refresh TTL then in force for the token's
\* app; the renewed exp is strictly greater than the original exp, and the
\* renewed rtexp is strictly greater than the original rtexp when the refresh TTL
\* in force exceeds what was left of the original rtexp.
C4_RenewedOnceFromCurrentTTL ==
    Refreshable =>
        /\ Len(response.headers) = 1
        /\ response.headers[1].value.kind = "jwt"
        /\ clientCookie = response.headers[1].value
        /\ RenewedToken.udata = Presented.payload.udata
        /\ RenewedToken.exp > Presented.payload.exp
        /\ RenewedToken.exp >= call.entry + getAccessTokenTTL(Presented.payload.udata.app)
        /\ RenewedToken.exp <= now + getAccessTokenTTL(Presented.payload.udata.app)
        /\ RenewedToken.rtexp >= call.entry + getRefreshTokenTTL(Presented.payload.udata.app)
        /\ RenewedToken.rtexp <= now + getRefreshTokenTTL(Presented.payload.udata.app)
        /\ getRefreshTokenTTL(Presented.payload.udata.app)
              > Presented.payload.rtexp - call.entry
           => RenewedToken.rtexp > Presented.payload.rtexp

\* a renewal whose rtexp is not greater than the original one
C4_Witness ==
    /\ Refreshable
    /\ Renewed
    /\ RenewedToken.rtexp <= Presented.payload.rtexp

\* ------------------------------------------------------------ C5
Created == call.op = "createAuthentication"

IssuedToken == response.headers[1].value.payload

\* C5 as stated: every token issued by createAuthentication has rtexp >= exp.
C5_AsStated == Created => IssuedToken.rtexp >= IssuedToken.exp

\* C5 amended: a token issued by createAuthentication has rtexp - exp at least
\* the refresh TTL minus the access TTL in force for its appId, so rtexp >= exp
\* whenever that refresh TTL is not smaller than that access TTL.
C5_RefreshNotBeforeAccess ==
    Created =>
        /\ IssuedToken.rtexp - IssuedToken.exp
              >= getRefreshTokenTTL(IssuedToken.iss) - getAccessTokenTTL(IssuedToken.iss)
        /\ getRefreshTokenTTL(IssuedToken.iss) >= getAccessTokenTTL(IssuedToken.iss)
           => IssuedToken.rtexp >= IssuedToken.exp

\* a token issued under per-app TTLs with the refresh TTL not the smaller one
C5_Witness ==
    /\ Created
    /\ IssuedToken.iss \in DOMAIN authAccessTokenTTL
    /\ IssuedToken.iss \in DOMAIN authRefreshTokenTTL
    /\ getRefreshTokenTTL(IssuedToken.iss) >= getAccessTokenTTL(IssuedToken.iss)
    /\ IssuedToken.rtexp >= IssuedToken.exp

\* ------------------------------------------------------------ C6
\* an authorization decision was taken in the last call
AuthorizationChecked == call.authorized # "none"

\* the authorization rules whose pattern matches the URI
MatchingRules(uri) ==
    {i \in DOMAIN authAuthorizations.rules :
        PatternMatches(authAuthorizations.rules[i].pattern, uri)}

\* the caller's roles as a set: empty for absent data, absent roles, "" and []
RoleSet(data) ==
    IF ~data.defined \/ data.roles.kind = "undefined" THEN {}
    ELSE IF data.roles.kind = "string"
         THEN (IF data.roles.str = "" THEN {} ELSE {data.roles.str})
         ELSE {data.roles.arr[i] : i \in DOMAIN data.roles.arr}

RuleRoles(i) ==
    {authAuthorizations.rules[i].data[j] : j \in DOMAIN authAuthorizations.rules[i].data}

\* C6: with an authorization rule set configured and no rule matching the request
\* URI, isAuthorized is true for every caller, and the call is not rejected.
C6_AsStated ==
    (/\ AuthorizationChecked
     /\ authAuthorizations.kind = "rules"
     /\ MatchingRules(request.requestURI) = {})
    => /\ call.authorized = "true"
       /\ call.returned = "true"

\* ------------------------------------------------------------ C7
RoleRuleMatched ==
    /\ AuthorizationChecked
    /\ authAuthorizeFn = "undefined"
    /\ authAuthorizations.kind = "rules"
    /\ MatchingRules(request.requestURI) # {}

\* C7 as stated: with no custom authorize function, for a rule that matches the
\* URI, isAuthorized is false for a caller whose role set is disjoint from the
\* rule's roles and true for a caller having one of them.
C7_AsStated ==
    RoleRuleMatched =>
        \A i \in MatchingRules(request.requestURI) :
            IF RuleRoles(i) \cap RoleSet(call.callerData) = {}
            THEN call.authorized = "false"
            ELSE call.authorized = "true"

\* C7 amended: with no custom authorize function and rules matching the URI,
\* isAuthorized is true for every caller having a role of one of the matching
\* rules, and false for every caller whose roles are a list or a non-empty
\* string and share no role with any matching rule; a single string role counts
\* as a one-element set.
C7_RoleIntersection ==
    RoleRuleMatched =>
        LET granted == \E i \in MatchingRules(request.requestURI) :
                          RuleRoles(i) \cap RoleSet(call.callerData) # {}
            hasRoles == /\ call.callerData.defined
                        /\ \/ call.callerData.roles.kind = "array"
                           \/ /\ call.callerData.roles.kind = "string"
                              /\ call.callerData.roles.str # ""
        IN /\ granted => call.authorized = "true"
           /\ ~granted /\ hasRoles => call.authorized = "false"

\* a single string role granted by a matching rule
C7_Witness ==
    /\ RoleRuleMatched
    /\ call.callerData.roles.kind = "string"
    /\ call.callerData.roles.str # ""
    /\ call.authorized = "true"

\* ------------------------------------------------------------ C8
\* C8: with an authorization rule set and no custom authorize function, a caller
\* whose roles are absent or empty (no caller data, no roles, "" or []) is
\* authorized for every URI.
C8_AsStated ==
    (/\ AuthorizationChecked
     /\ authAuthorizations.kind = "rules"
     /\ authAuthorizeFn = "undefined"
     /\ RoleSet(call.callerData) = {})
    => /\ call.authorized = "true"
       /\ call.returned = "true"

\* ------------------------------------------------------------ C9
\* the URI matches a pattern of the not-authenticated rule set
ExemptByRule(uri) ==
    /\ authNotAuthenticatedUrls.kind = "rules"
    /\ \E i \in DOMAIN authNotAuthenticatedUrls.rules :
          PatternMatches(authNotAuthenticatedUrls.rules[i].pattern, uri)

\* C9: on a URI matching the not-authenticated rule set, middleware returns true
\* without extracting or decoding a token, without a rejection or a Set-Cookie
\* header and without setting request.userData, whatever cookie is sent.
C9_ExemptPassesUntouched ==
    (call.op = "middleware" /\ ExemptByRule(request.requestURI))
    => /\ call.returned = "true"
       /\ ~call.extracted /\ ~call.found /\ ~call.decoded
       /\ call.authorized = "none"
       /\ response = NewResponse
       /\ request.userData = NoUserData

\* an exempt request carrying an expired token
C9_Witness ==
    /\ call.op = "middleware"
    /\ ExemptByRule(request.requestURI)
    /\ Presented.kind = "jwt"
    /\ Presented.payload.exp < now
    /\ call.returned = "true"

\* ------------------------------------------------------------ C10
NoExemption ==
    \/ authNotAuthenticatedUrls.kind = "undefined"
    \/ authNotAuthenticatedUrls.rules = <<>>

\* C10: with the not-authenticated set unset or empty, no URI is exempt:
\* middleware extracts the token on every call and rejects a request without one.
C10_NothingExemptWithoutRules ==
    (call.op = "middleware" /\ NoExemption)
    => /\ ~call.exempt
       /\ call.extracted
       /\ Presented.kind = "none" =>
             /\ Rejected
             /\ request.userData = NoUserData

\* a request without a token rejected after the set was cleared
C10_Witness ==
    /\ call.op = "middleware"
    /\ authNotAuthenticatedUrls.kind = "rules"
    /\ authNotAuthenticatedUrls.rules = <<>>
    /\ request.requestURI = "/public/health"
    /\ Presented.kind = "none"
    /\ Rejected

\* ------------------------------------------------------------ C11
\* the last call was middleware on a URI that is not exempt, or
\* validateOnlyAuthorization
Checking ==
    \/ Authenticating
    \/ call.op = "validateOnlyAuthorization"

\* the access part of the presented token was dead when the request came in
DeadAccess == Presented.kind = "jwt" /\ Presented.payload.exp < call.entry

\* C11: middleware and validateOnlyAuthorization end with true or false, never
\* with an exception; the result is false exactly when the one 401 rejection was
\* written, a true result writes none; and each failure (no token, a token that
\* does not decode, refresh expired, refresh denied or the refresh predicate
\* throwing, not authorized or the authorize function throwing) gives false.
C11_FailureIsOneRejection ==
    Checking =>
        /\ call.returned \in {"true", "false"}
        /\ call.returned = "false" <=> response.json = <<Rejection>>
        /\ call.returned = "true" <=> response.json = <<>>
        /\ Authenticating /\ Presented.kind # "jwt" => Rejected
        /\ Authenticating /\ DeadAccess /\ Presented.payload.rtexp < call.entry
              => Rejected
        /\ Authenticating /\ DeadAccess /\ authCanRefreshTokenFn \in {"deny", "throw"}
              => Rejected
        /\ call.authorized \in {"false", "throw"} => Rejected
        /\ (/\ AuthorizationChecked
            /\ authAuthorizations.kind = "rules"
            /\ authAuthorizeFn \in {"deny", "throw"}) => Rejected

\* a refresh predicate that throws, answered by the rejection
C11_Witness ==
    /\ Authenticating
    /\ DeadAccess
    /\ call.canRefreshAsked
    /\ authCanRefreshTokenFn = "throw"
    /\ Rejected

\* ------------------------------------------------------------ C12
\* C12: a middleware request on a URI that is not exempt presenting the cookie
\* value destroyAuthentication writes (the text "undefined") finds a cookie,
\* fails to decode it and is rejected with the 401 response; it never passes and
\* nothing is renewed, whatever token the client held before.
C12_DestroyedCookieRejected ==
    (Authenticating /\ Presented = UndefinedCookie)
    => /\ call.found
       /\ ~call.decoded
       /\ Rejected
       /\ ~Renewed
       /\ request.userData = NoUserData

\* the client sends back the cookie destroyAuthentication left it with
C12_Witness ==
    /\ Authenticating
    /\ clientCookie = UndefinedCookie
    /\ Presented = clientCookie
    /\ Rejected

\* ------------------------------------------------------------ C13
\* the keys the TTL setters are called with
TTLKeys == Apps \cup {"default"}

\* C13: after accessTokenTTL(app, d) the lookup for app returns d, for every d
\* the setter accepts (0 included), and no other entry and no refresh entry
\* changes; the same for refreshTokenTTL; and the lookup for an app without an
\* entry returns the default entry.
C13_AsStated ==
    [][/\ \A app \in TTLKeys, d \in TTLValues :
             accessTokenTTL(app, d) =>
                 /\ getAccessTokenTTL(app)' = d
                 /\ \A k \in DOMAIN authAccessTokenTTL \ {app} :
                       authAccessTokenTTL'[k] = authAccessTokenTTL[k]
                 /\ authRefreshTokenTTL' = authRefreshTokenTTL
       /\ \A app \in TTLKeys, d \in TTLValues :
             refreshTokenTTL(app, d) =>
                 /\ getRefreshTokenTTL(app)' = d
                 /\ \A k \in DOMAIN authRefreshTokenTTL \ {app} :
                       authRefreshTokenTTL'[k] = authRefreshTokenTTL[k]
                 /\ authAccessTokenTTL' = authAccessTokenTTL
       /\ \A app \in Apps \ DOMAIN authAccessTokenTTL :
             getAccessTokenTTL(app) = authAccessTokenTTL["default"]
       /\ \A app \in Apps \ DOMAIN authRefreshTokenTTL :
             getRefreshTokenTTL(app) = authRefreshTokenTTL["default"]]_vars

\* ------------------------------------------------------------ C14
\* C14: createAuthentication called at time t0 issues a token with
\* exp = t0 + accessTTL(appId) and rtexp = t0 + refreshTTL(appId), both from the
\* one instant t0, so that rtexp - exp = refreshTTL - accessTTL; iss and
\* udata.app are appId and udata.sub is userId; with the default TTLs
\* exp = t0 + 300000 and rtexp = t0 + 28800000.
C14_AsStated ==
    Created =>
        /\ IssuedToken.exp = call.entry + getAccessTokenTTL(IssuedToken.iss)
        /\ IssuedToken.rtexp = call.entry + getRefreshTokenTTL(IssuedToken.iss)
        /\ IssuedToken.rtexp - IssuedToken.exp
              = getRefreshTokenTTL(IssuedToken.iss) - getAccessTokenTTL(IssuedToken.iss)
        /\ IssuedToken.iss \in Apps
        /\ IssuedToken.udata.app = IssuedToken.iss
        /\ IssuedToken.udata.sub \in UserIds
        /\ (/\ authAccessTokenTTL = [k \in {"default"} |-> DEFAULT_ACCESS_TOKEN_TTL]
            /\ authRefreshTokenTTL = [k \in {"default"} |-> DEFAULT_REFRESH_TOKEN_TTL])
           => /\ IssuedToken.exp = call.entry + 300000
              /\ IssuedToken.rtexp = call.entry + 28800000

\* ------------------------------------------------------------ C15
\* C15: a middleware evaluation that runs while notAuthenticatedUrls(urls)
\* replaces the not-authenticated rule set finds in the variable the previous
\* rule set (unset or compiled) or the compiled new one, never the pattern list
\* before its compilation, and so never ends with an exception of the matcher.
C15_AsStated ==
    call.op = "middleware" =>
        /\ call.observed \in {"undefined", "rules"}
        /\ call.returned \in {"true", "false"}

\* ------------------------------------------------------------ C16
\* C16: addNotAuthenticatedUrls(urls) completes from every configuration of the
\* not-authenticated set (never configured, cleared, set before); every URI
\* exempt before the call is exempt after it, and every URI matching one of the
\* added patterns is exempt after it.
C16_AsStated ==
    [][\A urls \in UrlConfigs :
          addNotAuthenticatedUrls(urls) =>
              /\ call'.returned = "self"
              /\ \A uri \in URIs : ExemptByRule(uri) => ExemptByRule(uri)'
              /\ \A uri \in URIs :
                    (\E i \in DOMAIN urls : PatternMatches(urls[i], uri))
                    => ExemptByRule(uri)']_vars

\* ------------------------------------------------------------ C17
\* C17: validateOnlyAuthorization returns true exactly when isAuthorized is true
\* for the request URI and the caller data it was given, also on a URI of the
\* not-authenticated set; it extracts and decodes no cookie, tries no refresh,
\* emits no Set-Cookie header, leaves request.userData unset, and writes the 401
\* rejection exactly when the result is false.
C17_OnlyAuthorization ==
    call.op = "validateOnlyAuthorization" =>
        /\ call.returned \in {"true", "false"}
        /\ call.returned = "true"
              <=> isAuthorized(request.requestURI, call.callerData) = "true"
        /\ ~call.extracted /\ ~call.found /\ ~call.decoded /\ ~call.refreshTried
        /\ response.headers = <<>>
        /\ clientCookie = Presented
        /\ request.userData = NoUserData
        /\ call.returned = "false" <=> response.json = <<Rejection>>
        /\ call.returned = "true" <=> response.json = <<>>

\* a rejection on a URI of the not-authenticated set, with a token in the cookie
C17_Witness ==
    /\ call.op = "validateOnlyAuthorization"
    /\ ExemptByRule(request.requestURI)
    /\ Presented.kind = "jwt"
    /\ Rejected

\* ------------------------------------------------------------ C18
\* the request presents a token whose exp is past and whose rtexp is not, also
\* when the request ends
DeadAccessLiveRefresh ==
    /\ Authenticating
    /\ DeadAccess
    /\ Presented.payload.rtexp >= now

\* C18: for a token with dead access and live refresh whose refresh predicate
\* returns false, middleware rejects the request, leaves exp and rtexp as they
\* were and emits no Set-Cookie; the predicate is not called for a token whose
\* rtexp is past; and with no predicate configured such a token is renewed.
C18_RefreshDeniedIsTerminal ==
    /\ (DeadAccessLiveRefresh /\ authCanRefreshTokenFn = "deny")
       => /\ call.canRefreshAsked
          /\ Rejected
          /\ ~Renewed
          /\ call.tokenOut = Presented.payload
          /\ clientCookie = Presented
          /\ request.userData = NoUserData
    /\ (/\ Authenticating
        /\ Presented.kind = "jwt"
        /\ Presented.payload.rtexp < call.entry)
       => ~call.canRefreshAsked
    /\ (DeadAccessLiveRefresh /\ authCanRefreshTokenFn = "undefined")
       => /\ ~call.canRefreshAsked
          /\ Renewed
          /\ call.tokenOut = RenewedToken
          /\ clientCookie = serialize(RenewedToken)

\* a refresh denied by the predicate
C18_Witness ==
    /\ DeadAccessLiveRefresh
    /\ authCanRefreshTokenFn = "deny"
    /\ call.canRefreshAsked
    /\ Rejected

\* ------------------------------------------------------------ C19
\* C19 as stated: whenever middleware emits the Set-Cookie header of a renewed
\* token, it returns true and writes no 401 response.
C19_AsStated ==
    (Authenticating /\ Renewed)
    => /\ call.returned = "true"
       /\ response.json = <<>>

\* C19 amended: whenever middleware emits the Set-Cookie header of a renewed
\* token, the authorization check is made on the renewed token, and the request
\* passes exactly when isAuthorized is true for it and is rejected with the 401
\* response otherwise; with no authorization rule set configured it passes.
C19_RenewalThenAuthorization ==
    (Authenticating /\ Renewed)
    => /\ call.refreshed
       /\ call.authorized # "none"
       /\ call.callerData = RenewedToken.udata.data
       /\ call.returned = "true" <=> call.authorized = "true"
       /\ call.returned = "true" <=> response.json = <<>>
       /\ call.returned = "false" <=> response.json = <<Rejection>>
       /\ authAuthorizations.kind = "undefined" => call.returned = "true"

\* a renewed token sent back in the response that carries the rejection
C19_Witness ==
    /\ Authenticating
    /\ Renewed
    /\ call.authorized = "false"
    /\ Rejected

\* ------------------------------------------------------------ C20
\* the access part of the presented token is alive at the clock read of the check
LiveAccess ==
    /\ Presented.kind = "jwt"
    /\ Presented.payload.exp # 0
    /\ Presented.payload.exp >= call.entry

\* C20: for a token whose access part is alive (exp = now included) middleware
\* tries no refresh, leaves exp and rtexp as they are and emits no Set-Cookie;
\* middleware emits a Set-Cookie only for a token whose access part was dead and
\* whose refresh succeeded, and the renewed token has the iss and udata of the
\* presented one.
C20_LiveTokenUntouched ==
    /\ (Authenticating /\ LiveAccess)
       => /\ call.alive
          /\ ~call.refreshTried
          /\ ~call.canRefreshAsked
          /\ ~Renewed
          /\ call.tokenOut = Presented.payload
          /\ clientCookie = Presented
    /\ (call.op = "middleware" /\ Renewed)
       => /\ ~call.exempt
          /\ DeadAccess
          /\ call.refreshed
          /\ Len(response.headers) = 1
          /\ RenewedToken.iss = Presented.payload.iss
          /\ RenewedToken.udata = Presented.payload.udata

\* a token presented at the very clock value of its exp
C20_Witness ==
    /\ Authenticating
    /\ Presented.kind = "jwt"
    /\ Presented.payload.exp = call.entry
    /\ call.returned = "true"
    /\ ~Renewed

====
